---- MODULE Spec2Model ----
(***************************************************************************)
(* nd-slice: a flat buffer viewed as an n-dimensional array.               *)
(*                                                                         *)
(* Two specifications over the same definitions:                           *)
(*   Spec      the views (NdSlice / NdSliceMut): construction, element     *)
(*             reads, element writes, drop.                                *)
(*   SpecAddr  the address calculator as a pure function: Init draws       *)
(*             (order, shape, index), the actions apply address().         *)
(*                                                                         *)
(* usize is modelled as WordBits-bit unsigned.  Arithmetic overflow is     *)
(* build dependent in Rust: with overflow checks (debug profile) it        *)
(* panics, without them (release profile) it wraps modulo 2^WordBits.  The *)
(* variable `build` chooses between the two, once, in Init.                *)
(***************************************************************************)
EXTENDS Integers, Sequences, FiniteSets

VARIABLES
    build,      \* "debug" (overflow checks on) or "release" (wrapping)
    slice,      \* the caller's buffer, the one the view borrows
    view,       \* the live view: [live, mutable, shape, order]
    ctor,       \* ghost: what the successful constructor call was given
    before,     \* ghost: the buffer as it was before the last operation
    outcome,    \* the last operation and what it returned
    a_in,       \* SpecAddr: the arguments [order, shape, index] of address()
    a_out       \* SpecAddr: what address() returned, [done, panic, val, accs]

vars == <<build, slice, view, ctor, before, outcome, a_in, a_out>>

(***************************************************************************)
(* Bounds of the model.                                                    *)
(***************************************************************************)
WordBits  == 6      \* width of usize in the model
MaxDim    == 3      \* largest N (number of axes)
MaxExtent == 3      \* largest ordinary extent, and largest index coordinate
MaxLen    == 4      \* longest buffer
MaxVal    == 1      \* buffer elements are 0..MaxVal

Modulus == 2 ^ WordBits

Builds == {"debug", "release"}
Orders == {"RowMajor", "ColumnMajor"}

Values == 0 .. MaxVal

\* Extents that make the shape product leave the machine word.
HugeExtents == {Modulus \div 2, Modulus \div 2 + 1}

SeqsOf(S, n) == [1 .. n -> S]

SeqsUpTo(S, n) == UNION {SeqsOf(S, k) : k \in 0 .. n}

Buffers == SeqsUpTo(Values, MaxLen)

\* Shapes a caller hands to a constructor: any usize array.
Shapes == SeqsUpTo((0 .. MaxExtent) \cup HugeExtents, MaxDim)

Min(a, b) == IF a < b THEN a ELSE b

\* Index arrays a caller tries on a shape: every coordinate inside its axis,
\* or on its boundary (the first coordinate that is out of range).
RECURSIVE IndicesTo(_, _)
IndicesTo(shape, n) ==
    IF n = 0 THEN {<<>>}
    ELSE {Append(x, c) : x \in IndicesTo(shape, n - 1),
                         c \in 0 .. Min(shape[n], MaxExtent)}

Indices(shape) == IndicesTo(shape, Len(shape))

(***************************************************************************)
(* Reference mathematics (unbounded integers), used to state the claims.   *)
(***************************************************************************)
RECURSIVE Product(_)
Product(s) == IF s = <<>> THEN 1 ELSE s[1] * Product(Tail(s))

Reverse(s) == [k \in 1 .. Len(s) |-> s[Len(s) + 1 - k]]

RECURSIVE SumTo(_, _)
SumTo(f, n) == IF n = 0 THEN 0 ELSE f[n] + SumTo(f, n - 1)

\* sum over k of index[k] * product of shape[j], j > k
RowMajorReference(shape, index) ==
    SumTo([k \in 1 .. Len(shape) |->
              index[k] * Product(SubSeq(shape, k + 1, Len(shape)))],
          Len(shape))

\* sum over k of index[k] * product of shape[j], j < k
ColMajorReference(shape, index) ==
    SumTo([k \in 1 .. Len(shape) |->
              index[k] * Product(SubSeq(shape, 1, k - 1))],
          Len(shape))

InBounds(shape, index) ==
    /\ Len(index) = Len(shape)
    /\ \A k \in 1 .. Len(shape) : index[k] < shape[k]

RECURSIVE InBoundsTo(_, _)
InBoundsTo(shape, n) ==
    IF n = 0 THEN {<<>>}
    ELSE {Append(x, c) : x \in InBoundsTo(shape, n - 1),
                         c \in 0 .. Min(shape[n], MaxExtent + 1) - 1}

\* the indices of `shape` with every coordinate below its extent
InBoundsIndices(shape) == InBoundsTo(shape, Len(shape))

(***************************************************************************)
(* addressing.rs                                                           *)
(***************************************************************************)
Panicked == [panic |-> TRUE, val |-> 0, accs |-> <<>>]

\* `let mut res = index[k]`
Start(v) == [panic |-> FALSE, val |-> v, accs |-> <<v>>]

\* Accumulate with the multiplication and the addition swapped:
\* `res = (res + index[i]) * shape[i]`
AccumulateAddFirst(b, r, extent, coord) ==
    LET t == (r.val + coord) * extent
    IN  IF r.panic THEN r
        ELSE IF t >= Modulus /\ b = "debug" THEN Panicked
        ELSE [panic |-> FALSE, val |-> t % Modulus,
              accs |-> Append(r.accs, t % Modulus)]

\* `res = res * shape[i] + index[i]` on usize
Accumulate(b, r, extent, coord) ==
    LET t == r.val * extent + coord
    IN  IF r.panic THEN r
        ELSE IF t >= Modulus /\ b = "debug" THEN Panicked
        ELSE [panic |-> FALSE, val |-> t % Modulus,
              accs |-> Append(r.accs, t % Modulus)]

\* the loop `for i in 1..d`, after axis i (axes are 1-based here)
RECURSIVE RowLoop(_, _, _, _)
RowLoop(b, shape, index, i) ==
    IF i = 1 THEN Start(index[1])
    ELSE Accumulate(b, RowLoop(b, shape, index, i - 1), shape[i], index[i])

\* row_major_address striding by the extent of the axis before: shape[i - 1]
RECURSIVE RowLoopPrevExtent(_, _, _, _)
RowLoopPrevExtent(b, shape, index, i) ==
    IF i = 1 THEN Start(index[1])
    ELSE Accumulate(b, RowLoopPrevExtent(b, shape, index, i - 1),
                    shape[i - 1], index[i])

row_major_address_prev_extent(b, shape, index) ==
    IF Len(shape) # Len(index) THEN Panicked
    ELSE IF Len(shape) = 0 THEN Panicked
    ELSE RowLoopPrevExtent(b, shape, index, Len(shape))

row_major_address(b, shape, index) ==
    IF Len(shape) # Len(index) THEN Panicked      \* assert_eq!
    ELSE IF Len(shape) = 0 THEN Panicked          \* index[0] of an empty slice
    ELSE RowLoop(b, shape, index, Len(shape))

\* the loop `for i in (0..(d - 1)).rev()`, after axis i
RECURSIVE ColLoop(_, _, _, _)
ColLoop(b, shape, index, i) ==
    IF i = Len(shape) THEN Start(index[Len(shape)])
    ELSE Accumulate(b, ColLoop(b, shape, index, i + 1), shape[i], index[i])

\* col_major_address striding by the extent of the axis after: shape[i + 1]
RECURSIVE ColLoopNextExtent(_, _, _, _)
ColLoopNextExtent(b, shape, index, i) ==
    IF i = Len(shape) THEN Start(index[Len(shape)])
    ELSE Accumulate(b, ColLoopNextExtent(b, shape, index, i + 1),
                    shape[i + 1], index[i])

col_major_address_next_extent(b, shape, index) ==
    IF Len(shape) # Len(index) THEN Panicked
    ELSE IF Len(shape) = 0 THEN Panicked
    ELSE ColLoopNextExtent(b, shape, index, 1)

col_major_address(b, shape, index) ==
    IF Len(shape) # Len(index) THEN Panicked      \* assert_eq!
    ELSE IF Len(shape) = 0 THEN Panicked          \* d - 1 underflows: panic, or
                                                  \* index[usize::MAX]: panic
    ELSE ColLoop(b, shape, index, 1)

\* address with the two orders dispatched the same way
address_always_row(b, order, shape, index) == row_major_address(b, shape, index)

address(b, order, shape, index) ==
    IF order = "RowMajor" THEN row_major_address(b, shape, index)
    ELSE col_major_address(b, shape, index)

(***************************************************************************)
(* SpecAddr: the address calculator on its own.                            *)
(***************************************************************************)
NoCall == [done |-> FALSE, panic |-> FALSE, val |-> 0, accs |-> <<>>]

NoArgs == [order |-> "RowMajor", shape |-> <<>>, index |-> <<>>]

NoView == [live |-> FALSE, mutable |-> FALSE, shape |-> <<>>, order |-> "RowMajor"]

NoCtor == [shape |-> <<>>, order |-> "RowMajor", len |-> 0]

NoOutcome ==
    [op |-> "none", res |-> "none", shape |-> <<>>, order |-> "RowMajor",
     index |-> <<>>, val |-> 0, err_slice |-> <<>>, err_shape |-> <<>>]

\* A shape some buffer can have: its element count fits usize.
Realizable(shape) == Product(shape) < Modulus

InitAddr ==
    /\ build \in Builds
    /\ slice = <<>>
    /\ view = NoView
    /\ ctor = NoCtor
    /\ before = <<>>
    /\ outcome = NoOutcome
    /\ \E order \in Orders, shape \in SeqsUpTo(0 .. MaxExtent, MaxDim) :
          /\ Realizable(shape)
          /\ \E index \in Indices(shape) :
                a_in = [order |-> order, shape |-> shape, index |-> index]
    /\ a_out = NoCall

CallAddress ==
    /\ ~a_out.done
    /\ LET r == address(build, a_in.order, a_in.shape, a_in.index)
       IN  a_out' = [done |-> TRUE, panic |-> r.panic, val |-> r.val, accs |-> r.accs]
    /\ UNCHANGED <<build, slice, view, ctor, before, outcome, a_in>>

NextAddr == CallAddress

SpecAddr == InitAddr /\ [][NextAddr]_vars

(***************************************************************************)
(* Claims about the address calculator, checked under SpecAddr.            *)
(***************************************************************************)
Called(order) == a_out.done /\ a_in.order = order

Dims == Len(a_in.shape)

Result == [panic |-> a_out.panic, val |-> a_out.val, accs |-> a_out.accs]

\* C4: row-major, N >= 1, every coordinate below its extent: address returns
\* the sum over k of index[k] * product of shape[j] for j > k.
C4_RowMajorReference ==
    (Called("RowMajor") /\ Dims >= 1 /\ InBounds(a_in.shape, a_in.index))
        => /\ ~a_out.panic
           /\ a_out.val = RowMajorReference(a_in.shape, a_in.index)

\* shape [2,3], index [1,2] is offset 5
C4_Witness ==
    /\ Called("RowMajor")
    /\ a_in.shape = <<2, 3>> /\ a_in.index = <<1, 2>>
    /\ ~a_out.panic /\ a_out.val = 5

\* C5: column-major, N >= 1, every coordinate below its extent: address
\* returns the sum over k of index[k] * product of shape[j] for j < k.
C5_ColMajorReference ==
    (Called("ColumnMajor") /\ Dims >= 1 /\ InBounds(a_in.shape, a_in.index))
        => /\ ~a_out.panic
           /\ a_out.val = ColMajorReference(a_in.shape, a_in.index)

\* shape [2,3], index [0,2] is offset 4
C5_Witness ==
    /\ Called("ColumnMajor")
    /\ a_in.shape = <<2, 3>> /\ a_in.index = <<0, 2>>
    /\ ~a_out.panic /\ a_out.val = 4

\* C6: column-major addressing is row-major addressing of the reversed
\* shape and index (same offset, same panics, same accumulator values); and
\* for an in-bounds index the element a column-major view finds in the
\* column-major flattening is the one a row-major view finds in the
\* row-major flattening at that index.
C6_OrdersAgree ==
    Called("ColumnMajor") =>
        /\ Result = address(build, "RowMajor", Reverse(a_in.shape),
                            Reverse(a_in.index))
        /\ (Dims >= 1 /\ InBounds(a_in.shape, a_in.index)) =>
              LET row == address(build, "RowMajor", a_in.shape, a_in.index)
                  \* the logical elements stored at offset a_out.val of the
                  \* column-major flattening
                  there == {J \in InBoundsIndices(a_in.shape) :
                               ColMajorReference(a_in.shape, J) = a_out.val}
              IN  /\ ~a_out.panic /\ ~row.panic
                  /\ there # {}
                  \* each is the element at offset row.val of the row-major one
                  /\ \A J \in there :
                        RowMajorReference(a_in.shape, J) = row.val

\* shape [2,3], index [1,1]: offset 3 column-major, 4 row-major
C6_Witness ==
    /\ Called("ColumnMajor")
    /\ a_in.shape = <<2, 3>> /\ a_in.index = <<1, 1>>
    /\ a_out.val = 3
    /\ row_major_address(build, a_in.shape, a_in.index).val = 4

\* C9: N >= 1, all extents >= 1, in-bounds index: no accumulator value
\* reaches product(shape), and over the in-bounds indices of the shape the
\* address map is one-to-one and onto 0 .. product(shape) - 1.
C9_Bijection ==
    (/\ a_out.done
     /\ Dims >= 1
     /\ \A k \in 1 .. Dims : a_in.shape[k] >= 1
     /\ InBounds(a_in.shape, a_in.index))
        => LET P == Product(a_in.shape)
               inside == InBoundsIndices(a_in.shape)
               image == {address(build, a_in.order, a_in.shape, J).val :
                            J \in inside}
           IN  /\ ~a_out.panic
               /\ Len(a_out.accs) = Dims
               /\ \A n \in 1 .. Len(a_out.accs) : a_out.accs[n] < P
               /\ \A J \in inside :
                     ~address(build, a_in.order, a_in.shape, J).panic
               /\ Cardinality(inside) = P
               /\ image = 0 .. P - 1

\* three axes, the last in-bounds index, the last offset
C9_Witness ==
    /\ a_out.done
    /\ a_in.shape = <<2, 3, 2>> /\ a_in.index = <<1, 2, 1>>
    /\ a_out.val = 11
    /\ Len(a_out.accs) = 3

(***************************************************************************)
(* nd_slice.rs, nd_slice_mut.rs: the views.                                *)
(***************************************************************************)
\* one step of `shape.iter().fold(1, |acc, &x| acc * x)` on usize
FoldStep(b, r, x) ==
    LET t == r.val * x
    IN  IF r.panic THEN r
        ELSE IF t >= Modulus /\ b = "debug" THEN [panic |-> TRUE, val |-> 0]
        ELSE [panic |-> FALSE, val |-> t % Modulus]

RECURSIVE ShapeFold(_, _, _)
ShapeFold(b, shape, n) ==
    IF n = 0 THEN [panic |-> FALSE, val |-> 1]
    ELSE FoldStep(b, ShapeFold(b, shape, n - 1), shape[n])

\* `slice.len() == shape.iter().fold(1, |acc, &x| acc * x)`
LengthMatches(len, fold) == len = fold.val

\* The caller holds the buffer and nothing borrows it.
Unborrowed == ~view.live /\ outcome.op = "none"

\* NdSlice::new (mutable = FALSE) and NdSliceMut::new (mutable = TRUE)
NdNew(mutable, shape, order) ==
    /\ LET fold == ShapeFold(build, shape, Len(shape))
           call == [NoOutcome EXCEPT !.op = "new", !.shape = shape, !.order = order]
       IN  IF fold.panic
           THEN /\ outcome' = [call EXCEPT !.res = "panic"]
                /\ UNCHANGED <<view, ctor>>
           ELSE IF LengthMatches(Len(slice), fold)
           THEN /\ view' = [live |-> TRUE, mutable |-> mutable,
                            shape |-> shape, order |-> order]
                /\ ctor' = [shape |-> shape, order |-> order, len |-> Len(slice)]
                /\ outcome' = [call EXCEPT !.res = "Ok"]
           ELSE /\ outcome' = [call EXCEPT !.res = "Err",
                                           !.err_slice = slice,
                                           !.err_shape = shape]
                /\ UNCHANGED <<view, ctor>>
    /\ before' = slice
    /\ UNCHANGED <<build, slice, a_in, a_out>>

new ==
    /\ Unborrowed
    /\ \E mutable \in BOOLEAN, shape \in Shapes, order \in Orders :
          NdNew(mutable, shape, order)

\* slice::from_raw_parts(ptr, len) with the caller's contract kept: the
\* pointer is the buffer's and len is its length
from_ptr ==
    /\ Unborrowed
    /\ \E mutable \in BOOLEAN, shape \in Shapes, order \in Orders :
          NdNew(mutable, shape, order)

new_row_ordered ==
    /\ Unborrowed
    /\ \E mutable \in BOOLEAN, shape \in Shapes :
          NdNew(mutable, shape, "RowMajor")

col_ordered ==
    /\ Unborrowed
    /\ \E mutable \in BOOLEAN, shape \in Shapes :
          NdNew(mutable, shape, "ColumnMajor")

\* `self.slice[i]`: the bounds check of the underlying slice
SliceGet(s, r) ==
    IF r.panic \/ r.val >= Len(s) THEN [panic |-> TRUE, val |-> 0]
    ELSE [panic |-> FALSE, val |-> s[r.val + 1]]

\* what `v[index]` evaluates to on view v over buffer s
ReadAt(b, v, s, index) == SliceGet(s, address(b, v.order, v.shape, index))

\* No reference handed out by an earlier access is still held: the borrow
\* checker lets the next access of the view start.
Idle == outcome.op \notin {"index", "index_mut"}

\* <NdSlice / NdSliceMut as Index>::index
Read(index) ==
    LET got == ReadAt(build, view, slice, index)
        call == [NoOutcome EXCEPT !.op = "index", !.index = index]
    IN  /\ outcome' = IF got.panic THEN [call EXCEPT !.res = "panic"]
                      ELSE [call EXCEPT !.res = "Ok", !.val = got.val]
        /\ before' = slice
        /\ UNCHANGED <<build, slice, view, ctor, a_in, a_out>>

NdSlice_index ==
    /\ view.live /\ ~view.mutable /\ Idle
    /\ \E index \in Indices(view.shape) : Read(index)

NdSliceMut_index ==
    /\ view.live /\ view.mutable /\ Idle
    /\ \E index \in Indices(view.shape) : Read(index)

\* `n[index] = v`: <NdSliceMut as IndexMut>::index_mut, then the store
NdSliceMut_index_mut ==
    /\ view.live /\ view.mutable /\ Idle
    /\ \E index \in Indices(view.shape), v \in Values :
          LET r == address(build, view.order, view.shape, index)
              call == [NoOutcome EXCEPT !.op = "index_mut", !.index = index,
                                        !.val = v]
          IN  IF r.panic \/ r.val >= Len(slice)
              THEN /\ outcome' = [call EXCEPT !.res = "panic"]
                   /\ slice' = slice
              ELSE /\ outcome' = [call EXCEPT !.res = "Ok"]
                   /\ slice' = [slice EXCEPT ![r.val + 1] = v]
    /\ before' = slice
    /\ UNCHANGED <<build, view, ctor, a_in, a_out>>

\* the reference an access returned (or its panic) is behind the caller
Release ==
    /\ view.live
    /\ ~Idle
    /\ outcome' = NoOutcome
    /\ before' = slice
    /\ UNCHANGED <<build, slice, view, ctor, a_in, a_out>>

\* the view goes out of scope; the buffer is the caller's again
Drop ==
    /\ view.live
    /\ view' = NoView
    /\ ctor' = NoCtor
    /\ outcome' = NoOutcome
    /\ before' = slice
    /\ UNCHANGED <<build, slice, a_in, a_out>>

\* the caller is done with a failed construction and may try another shape
DropError ==
    /\ ~view.live
    /\ outcome.op = "new"
    /\ outcome' = NoOutcome
    /\ UNCHANGED <<build, slice, view, ctor, before, a_in, a_out>>

Init ==
    /\ build \in Builds
    /\ slice \in Buffers
    /\ view = NoView
    /\ ctor = NoCtor
    /\ before = slice
    /\ outcome = NoOutcome
    /\ a_in = NoArgs
    /\ a_out = NoCall

Next ==
    \/ new
    \/ from_ptr
    \/ new_row_ordered
    \/ col_ordered
    \/ NdSlice_index
    \/ NdSliceMut_index
    \/ NdSliceMut_index_mut
    \/ Release
    \/ Drop
    \/ DropError

Spec == Init /\ [][Next]_vars

(***************************************************************************)
(* Claims about the views, checked under Spec.                             *)
(***************************************************************************)
Accessed == view.live /\ outcome.op \in {"index", "index_mut"}

\* The view's shape has N >= 1 axes and as many elements as the buffer.
WellShaped == Len(view.shape) >= 1 /\ Product(view.shape) = Len(slice)

SomeCoordinateOutOfRange(shape, index) ==
    \E k \in 1 .. Len(shape) : index[k] >= shape[k]

\* C1: a constructor returns Ok exactly when the buffer length is the product
\* of the extents; otherwise it returns the ShapeError holding that buffer
\* and that shape, and there is no view.
C1_ConstructIffProduct ==
    outcome.op = "new" =>
        /\ outcome.res = "Ok" <=> Len(slice) = Product(outcome.shape)
        /\ outcome.res = "Ok" =>
              /\ view.live
              /\ view.shape = outcome.shape /\ view.order = outcome.order
        /\ Len(slice) # Product(outcome.shape) =>
              /\ outcome.res = "Err"
              /\ outcome.err_slice = slice
              /\ outcome.err_shape = outcome.shape
              /\ ~view.live

\* C2: an element access faults exactly when some coordinate is >= its
\* extent (stated for the views with N >= 1 whose shape counts the buffer's
\* elements).
C2_FaultIffOutOfRange ==
    (Accessed /\ WellShaped) =>
        (outcome.res = "panic"
            <=> SomeCoordinateOutOfRange(view.shape, outcome.index))

\* C3: after a write of v at I that did not fault, a read at I returns v and
\* a read at any other index J returns what it returned before the write
\* (stated for the views with N >= 1 whose shape counts the buffer's elements).
C3_WriteChangesOneElement ==
    (Accessed /\ WellShaped /\ outcome.op = "index_mut" /\ outcome.res = "Ok") =>
        /\ ReadAt(build, view, slice, outcome.index)
              = [panic |-> FALSE, val |-> outcome.val]
        /\ \A J \in Indices(view.shape) \ {outcome.index} :
              ReadAt(build, view, slice, J) = ReadAt(build, view, before, J)

\* C7: while the view lives, its shape, order and buffer length are those of
\* its construction, the buffer length is the product of the shape, and an
\* access that faulted changed no element.
C7_ViewFixed ==
    view.live =>
        /\ view.shape = ctor.shape
        /\ view.order = ctor.order
        /\ Len(slice) = ctor.len
        /\ Len(slice) = Product(view.shape)
        /\ (Accessed /\ outcome.res = "panic") => slice = before

\* C8: a view with no axes, indexed with the empty index, yields the one
\* element of its buffer.
C8_ZeroDimensional ==
    (Accessed /\ view.shape = <<>> /\ outcome.index = <<>>) =>
        /\ outcome.res = "Ok"
        /\ outcome.op = "index" => outcome.val = slice[1]
        /\ outcome.op = "index_mut" => slice = <<outcome.val>>

\* C10: a shape whose product does not fit the machine word is never
\* accepted by a constructor.
C10_NoWraparoundAccept ==
    (outcome.op = "new" /\ Product(outcome.shape) >= Modulus) =>
        outcome.res # "Ok"

====
